---- MODULE Spec2Model ----
(***************************************************************************)
(* Model of the InfluxDB reporter of go-metrics-influxdb (influxdb.go).    *)
(*                                                                         *)
(* The reporter is built by InfluxDBWithTags and then runs forever in      *)
(* reporter.run, which selects between two tickers: the interval ticker    *)
(* calls reporter.send, the ping ticker pings the client and rebuilds it   *)
(* with reporter.makeClient when the ping fails.                           *)
(*                                                                         *)
(* Go maps are references: a tag map is modelled as an index into `maps`,  *)
(* the tag maps alive in the current tick, so that aliasing is visible.    *)
(* Go ranges over a map in an unspecified order: the order of a multi-field*)
(* metric is chosen from Orders.                                           *)
(***************************************************************************)
EXTENDS Integers, Sequences, FiniteSets, TLC

VARIABLES
    cfg,        \* the arguments InfluxDBWithTags was called with (reporter fields)
    pc,         \* position of the control flow
    ctor,       \* how InfluxDBWithTags ended: "none", "parse_err", "client_err", "ok"
    client,     \* r.client: the current handle, Nil when it is a nil pointer
    built,      \* number of handles client.NewClient has returned so far
    clock,      \* wall clock
    cap,        \* the last capture of time.Now() by send: the instant t, the stamp now
    now,        \* send's local `now`
    pts,        \* send's local `pts`
    maps,       \* tag maps alive in this tick; maps[BaseRef] is r.tags
    vi,         \* position of reg.Each in the registry
    mbs,        \* send's local maxBatchSize
    i,          \* send's loop variable
    attempts,   \* the calls of r.client.Write the current send has made
    sendRes,    \* what send returned to run: "none" (not yet), "nil", "err"
    stored,     \* points of the send in progress that the remote store has accepted
    hc,         \* the last health check: ping, rebuild, handle before, handle after
    rebuilt,    \* the last successful rebuild, until a later rebuild attempt fails
    reports,    \* number of interval ticks taken
    pings,      \* number of ping ticks taken
    log         \* lines the current (or last) tick wrote with log.Printf

vars == <<cfg, pc, ctor, client, built, clock, cap, now, pts, maps, vi, mbs, i,
          attempts, sendRes, stored, hc, rebuilt, reports, pings, log>>

(***************************************************************************)
(* Bounds                                                                  *)
(***************************************************************************)
MaxReports == 2
MaxPings == 1
MaxClock == 2
MaxRot == 1

(***************************************************************************)
(* Values                                                                  *)
(***************************************************************************)
Nil == 0
BaseRef == 1

Min(a, b) == IF a < b THEN a ELSE b

EmptyTags == <<>>
HostTags == ("host" :> "a")

\* Snapshots of the six metric kinds and of a kind the type switch does not list.
CounterC == [name |-> "c", kind |-> "Counter", Count |-> 7]
GaugeG == [name |-> "g", kind |-> "Gauge", Value |-> 1024]
GaugeFloatF == [name |-> "f", kind |-> "GaugeFloat64", Value |-> 3]
HistogramH == [name |-> "h", kind |-> "Histogram", Count |-> 5, Max |-> 9, Mean |-> 4,
               Min |-> 1, StdDev |-> 2, Variance |-> 6, Percentiles |-> <<8, 3, 7, 0>>]
MeterM == [name |-> "m", kind |-> "Meter", Count |-> 5, Rate1 |-> 2, Rate5 |-> 3,
           RateMean |-> 1]
TimerT == [name |-> "t", kind |-> "Timer", Count |-> 5, Max |-> 9, Mean |-> 4,
           Min |-> 1, StdDev |-> 2, Variance |-> 6, Percentiles |-> <<6, 1, 9, 4>>,
           Rate1 |-> 2, Rate5 |-> 3, RateMean |-> 1]
HealthcheckX == [name |-> "x", kind |-> "Healthcheck"]

Registries ==
    { <<>>,
      <<CounterC>>,
      <<HealthcheckX>>,
      <<GaugeG, HealthcheckX, GaugeFloatF>>,
      <<CounterC, MeterM>>,
      <<HistogramH>>,
      <<TimerT>> }

BatchSizes == {-1, 0, 2, 5}
Intervals == {2}

Configs ==
    [reg : Registries, maxBatchSize : BatchSizes, align : BOOLEAN,
     interval : Intervals, measurement : {"ms"}, tags : {EmptyTags, HostTags}]


(***************************************************************************)
(* Iteration order of a Go map                                             *)
(***************************************************************************)
Reverse(s) == [j \in 1..Len(s) |-> s[Len(s) + 1 - j]]

Rotate(s, k) == [j \in 1..Len(s) |-> s[((j - 1 + k) % Len(s)) + 1]]

\* `for k, v := range fields`: the orders the model lets the range produce, the
\* literal's order and its reverse, each started at one of the first MaxRot+1
\* keys (the one empty order when there is no such map).
Orders(s) ==
    IF s = <<>> THEN {<<>>}
    ELSE { Rotate(s, k) : k \in 0..Min(MaxRot, Len(s) - 1) }
             \cup { Rotate(Reverse(s), k) : k \in 0..Min(MaxRot, Len(s) - 1) }

(***************************************************************************)
(* Point translation (the callback of reg.Each in reporter.send)           *)
(***************************************************************************)
\* fmt.Sprintf("%s.count", name) and the like.
FieldKey(name, suffix) == name \o suffix

\* Faulty variant: the copy is made but the bucket is never set.
bucketTagsNoBucket(bucket, tags) == [k \in DOMAIN tags |-> tags[k]]

\* bucketTags(bucket, tags): a new map holding tags and then bucket.
bucketTags(bucket, tags) ==
    [k \in DOMAIN tags \cup {"bucket"} |-> IF k = "bucket" THEN bucket ELSE tags[k]]
\* Faulty variant: the last two percentiles are labelled the wrong way round.
HistogramFieldsSwapped(ms) ==
    << <<"count", ms.Count>>, <<"max", ms.Max>>, <<"mean", ms.Mean>>,
       <<"min", ms.Min>>, <<"stddev", ms.StdDev>>, <<"variance", ms.Variance>>,
       <<"p50", ms.Percentiles[1]>>, <<"p75", ms.Percentiles[2]>>,
       <<"p95", ms.Percentiles[4]>>, <<"p99", ms.Percentiles[3]>> >>

\* The fields map literal of a Histogram, as <<key, value>> pairs.
HistogramFields(ms) ==
    << <<"count", ms.Count>>, <<"max", ms.Max>>, <<"mean", ms.Mean>>,
       <<"min", ms.Min>>, <<"stddev", ms.StdDev>>, <<"variance", ms.Variance>>,
       <<"p50", ms.Percentiles[1]>>, <<"p75", ms.Percentiles[2]>>,
       <<"p95", ms.Percentiles[3]>>, <<"p99", ms.Percentiles[4]>> >>

\* The fields map literal of a Meter.
MeterFields(ms) ==
    << <<"count", ms.Count>>, <<"m1", ms.Rate1>>, <<"m5", ms.Rate5>>,
       <<"mean", ms.RateMean>> >>

\* The fields map literal of a Timer.
TimerFields(ms) ==
    << <<"count", ms.Count>>, <<"max", ms.Max>>, <<"mean", ms.Mean>>,
       <<"min", ms.Min>>, <<"stddev", ms.StdDev>>, <<"variance", ms.Variance>>,
       <<"p50", ms.Percentiles[1]>>, <<"p75", ms.Percentiles[2]>>,
       <<"p95", ms.Percentiles[3]>>, <<"p99", ms.Percentiles[4]>>,
       <<"m1", ms.Rate1>>, <<"m5", ms.Rate5>>, <<"meanrate", ms.RateMean>> >>
\* Faulty variant: time.Now() is read again for every point.
PointReadsClock(ref, key, v) ==
    [Measurement |-> cfg.measurement, Tags |-> ref, Fields |-> (key :> v),
     Time |-> IF cfg.align THEN (clock \div cfg.interval) * cfg.interval ELSE clock]

\* client.Point{Measurement: ..., Tags: ..., Fields: {key: v}, Time: now};
\* Tags is a reference to a map of `maps`.
Point(ref, key, v) ==
    [Measurement |-> cfg.measurement, Tags |-> ref, Fields |-> (key :> v), Time |-> now]
\* Faulty variant: a single-point kind goes through bucketTags as well.
PlainPointBucketed(st, key, v) ==
    LET ms2 == Append(st.maps, bucketTags("value", st.maps[BaseRef]))
    IN  [pts |-> Append(st.pts, Point(Len(ms2), key, v)), maps |-> ms2]

\* Counter, Gauge, GaugeFloat64: one point whose Tags is r.tags itself.
PlainPoint(st, key, v) ==
    [pts |-> Append(st.pts, Point(BaseRef, key, v)), maps |-> st.maps]

\* One iteration of `for k, v := range fields`: bucketTags makes a new map and
\* the point refers to it.
BucketPoint(st, key, f) ==
    LET ms2 == Append(st.maps, bucketTags(f[1], st.maps[BaseRef]))
    IN  [pts |-> Append(st.pts, Point(Len(ms2), key, f[2])), maps |-> ms2]

RECURSIVE RangeFields(_, _, _)
RangeFields(st, key, fs) ==
    IF fs = <<>> THEN st
    ELSE RangeFields(BucketPoint(st, key, Head(fs)), key, Tail(fs))
\* Faulty variant: a kind the switch does not list gets a point of its own.
TranslateDefaultPoint(st, e, ord) ==
    CASE e.kind = "Counter" -> PlainPoint(st, FieldKey(e.name, ".count"), e.Count)
      [] e.kind = "Gauge" -> PlainPoint(st, FieldKey(e.name, ".gauge"), e.Value)
      [] e.kind = "GaugeFloat64" -> PlainPoint(st, FieldKey(e.name, ".gauge"), e.Value)
      [] e.kind = "Histogram" -> RangeFields(st, FieldKey(e.name, ".histogram"), ord)
      [] e.kind = "Meter" -> RangeFields(st, FieldKey(e.name, ".meter"), ord)
      [] e.kind = "Timer" -> RangeFields(st, FieldKey(e.name, ".timer"), ord)
      [] OTHER -> PlainPoint(st, FieldKey(e.name, ".value"), 0)

\* The type switch: st with the points of metric e appended, the fields of a
\* multi-field metric ranged over in the order ord of its literal.
Translate(st, e, ord) ==
    CASE e.kind = "Counter" -> PlainPoint(st, FieldKey(e.name, ".count"), e.Count)
      [] e.kind = "Gauge" -> PlainPoint(st, FieldKey(e.name, ".gauge"), e.Value)
      [] e.kind = "GaugeFloat64" -> PlainPoint(st, FieldKey(e.name, ".gauge"), e.Value)
      [] e.kind = "Histogram" -> RangeFields(st, FieldKey(e.name, ".histogram"), ord)
      [] e.kind = "Meter" -> RangeFields(st, FieldKey(e.name, ".meter"), ord)
      [] e.kind = "Timer" -> RangeFields(st, FieldKey(e.name, ".timer"), ord)
      [] OTHER -> st

\* The fields literal the case of e.kind builds (none for a single-point kind).
FieldsOf(e) ==
    CASE e.kind = "Histogram" -> HistogramFields(e)
      [] e.kind = "Meter" -> MeterFields(e)
      [] e.kind = "Timer" -> TimerFields(e)
      [] OTHER -> <<>>

(***************************************************************************)
(* The transport client (github.com/influxdata/influxdb1-client)           *)
(***************************************************************************)
\* client.NewClient: (a new handle, nil) or (what a failed constructor hands
\* back, err): a nil pointer, or a handle that is not nil.
NewClientOutcomes == {"ok", "err_nil", "err_ptr"}

NewClient(outcome, fresh) ==
    CASE outcome = "ok" -> [client |-> fresh, err |-> FALSE]
      [] outcome = "err_nil" -> [client |-> Nil, err |-> TRUE]
      [] outcome = "err_ptr" -> [client |-> fresh, err |-> TRUE]

\* A method call on the handle h: a nil *Client is dereferenced and panics,
\* otherwise the network decides.
Call(h, ok) == IF h = Nil THEN "panic" ELSE IF ok THEN "ok" ELSE "err"


(***************************************************************************)
(* Initial state: InfluxDBWithTags is about to be called with cfg          *)
(***************************************************************************)
NoCapture == [t |-> 0, stamp |-> 0]
NoCheck == [ping |-> "none", rebuild |-> "none", before |-> Nil, after |-> Nil]
NoRebuild == [active |-> FALSE, old |-> Nil, new |-> Nil]

Init ==
    /\ cfg \in Configs
    /\ pc = "start"
    /\ ctor = "none"
    /\ client = Nil
    /\ built = 0
    /\ clock = 0
    /\ cap = NoCapture
    /\ now = 0
    /\ pts = <<>>
    /\ maps = <<cfg.tags>>
    /\ vi = 1
    /\ mbs = 0
    /\ i = 0
    /\ attempts = <<>>
    /\ sendRes = "none"
    /\ stored = 0
    /\ hc = NoCheck
    /\ rebuilt = NoRebuild
    /\ reports = 0
    /\ pings = 0
    /\ log = <<>>

(***************************************************************************)
(* InfluxDBWithTags                                                        *)
(***************************************************************************)
\* uurl.Parse fails: log and return.
ParseFails ==
    /\ pc = "start"
    /\ pc' = "returned"
    /\ ctor' = "parse_err"
    /\ log' = Append(log, "unable to parse InfluxDB url")
    /\ UNCHANGED <<cfg, cap, client, built, clock, now, pts, maps, vi, mbs, i, attempts,
                   sendRes, stored, hc, rebuilt, reports, pings>>

\* Faulty variant: rep.run() is reached although makeClient failed (no return).
ConstructNoReturn(outcome) ==
    LET nc == NewClient(outcome, built + 1)
    IN  /\ pc = "start"
        /\ client' = nc.client
        /\ built' = IF nc.client = Nil THEN built ELSE built + 1
        /\ pc' = "select"
        /\ ctor' = IF nc.err THEN "client_err" ELSE "ok"
        /\ log' = IF nc.err THEN Append(log, "unable to make InfluxDB client") ELSE log
        /\ UNCHANGED <<cfg, cap, clock, now, pts, maps, vi, mbs, i, attempts, sendRes,
                       stored, hc, rebuilt, reports, pings>>

\* The url parses and rep.makeClient() is called: r.client takes what
\* client.NewClient returned; on an error log and return, otherwise rep.run().
Construct(outcome) ==
    LET nc == NewClient(outcome, built + 1)
    IN  /\ pc = "start"
        /\ client' = nc.client
        /\ built' = IF nc.client = Nil THEN built ELSE built + 1
        /\ IF nc.err
             THEN /\ pc' = "returned"
                  /\ ctor' = "client_err"
                  /\ log' = Append(log, "unable to make InfluxDB client")
             ELSE /\ pc' = "select"
                  /\ ctor' = "ok"
                  /\ log' = log
        /\ UNCHANGED <<cfg, cap, clock, now, pts, maps, vi, mbs, i, attempts, sendRes,
                       stored, hc, rebuilt, reports, pings>>

InfluxDBWithTags == ParseFails \/ \E outcome \in NewClientOutcomes : Construct(outcome)

(***************************************************************************)
(* reporter.run: case <-intervalTicker, reporter.send                      *)
(***************************************************************************)
\* Faulty variant: now.Round(r.interval), to the nearest multiple.
TruncateRound(t, d) == ((t + d \div 2) \div d) * d

\* now.Truncate(r.interval)
Truncate(t, d) == (t \div d) * d

\* The instant send stamps its points with.
CaptureNow(t) == IF cfg.align THEN Truncate(t, cfg.interval) ELSE t

\* The interval ticker fires and send starts: now is captured, pts is empty,
\* reg.Each is about to visit the first metric.
ReportTick ==
    /\ pc = "select"
    /\ reports < MaxReports
    /\ reports' = reports + 1
    /\ now' = CaptureNow(clock)
    /\ cap' = [t |-> clock, stamp |-> now']
    /\ pts' = <<>>
    /\ maps' = <<cfg.tags>>
    /\ vi' = 1
    /\ attempts' = <<>>
    /\ sendRes' = "none"
    /\ log' = <<>>
    /\ pc' = "visit"
    /\ UNCHANGED <<cfg, ctor, client, built, clock, mbs, i, stored, hc, rebuilt,
                   pings>>

\* reg.Each calls the callback on the next metric.
Visit ==
    /\ pc = "visit"
    /\ vi <= Len(cfg.reg)
    /\ \E ord \in Orders(FieldsOf(cfg.reg[vi])) :
         LET st == Translate([pts |-> pts, maps |-> maps], cfg.reg[vi], ord)
         IN  /\ pts' = st.pts
             /\ maps' = st.maps
    /\ vi' = vi + 1
    /\ UNCHANGED <<cfg, cap, pc, ctor, client, built, clock, now, mbs, i, attempts,
                   sendRes, stored, hc, rebuilt, reports, pings, log>>

\* Faulty variant: a size <= 0 becomes batches of one point.
BatchSizeOne(configured, n) == IF configured <= 0 THEN 1 ELSE configured

\* maxBatchSize := r.maxBatchSize; if maxBatchSize <= 0 { maxBatchSize = len(pts) }
BatchSize(configured, n) == IF configured <= 0 THEN n ELSE configured

\* reg.Each has returned: the batch size is settled and the loop starts at 0.
StartBatches ==
    /\ pc = "visit"
    /\ vi > Len(cfg.reg)
    /\ mbs' = BatchSize(cfg.maxBatchSize, Len(pts))
    /\ i' = 0
    /\ pc' = "write"
    /\ UNCHANGED <<cfg, cap, ctor, client, built, clock, now, pts, maps, vi, attempts,
                   sendRes, stored, hc, rebuilt, reports, pings, log>>

\* Faulty variant: a full batch ends one point early.
BatchEndShort(from, size, n) == IF n < from + size THEN n ELSE from + size - 1

\* batchEnd := i + maxBatchSize; if len(pts) < batchEnd { batchEnd = len(pts) }
BatchEnd(from, size, n) == IF n < from + size THEN n ELSE from + size

\* pts[i:batchEnd]
Slice(s, from, to) == SubSeq(s, from + 1, to)

\* Faulty variant: a failed write does not return, the loop goes on with the next batch.
AfterWriteContinue(res) ==
    CASE res = "ok" -> [pc |-> "write", i |-> i + mbs, sendRes |-> "none"]
      [] res = "err" -> [pc |-> "write", i |-> i + mbs, sendRes |-> "none"]
      [] res = "panic" -> [pc |-> "crashed", i |-> i, sendRes |-> "none"]

\* Faulty variant: a failed write ends send, which returns nil.
AfterWriteSwallow(res) ==
    CASE res = "ok" -> [pc |-> "write", i |-> i + mbs, sendRes |-> "none"]
      [] res = "err" -> [pc |-> "sent", i |-> i, sendRes |-> "nil"]
      [] res = "panic" -> [pc |-> "crashed", i |-> i, sendRes |-> "none"]

\* What one loop iteration does once Write has answered res.
AfterWrite(res) ==
    CASE res = "ok" -> [pc |-> "write", i |-> i + mbs, sendRes |-> "none"]
      [] res = "err" -> [pc |-> "sent", i |-> i, sendRes |-> "err"]
      [] res = "panic" -> [pc |-> "crashed", i |-> i, sendRes |-> "none"]
\* Faulty variant: the loop tests i <= len(pts), so it writes once more.
WriteBatchOnceMore(ok) ==
    LET bps == Slice(pts, i, BatchEnd(i, mbs, Len(pts)))
        res == Call(client, ok)
        nxt == AfterWrite(res)
    IN  /\ pc = "write"
        /\ i <= Len(pts)
        /\ attempts' = Append(attempts, [handle |-> client, points |-> bps, res |-> res])
        /\ stored' = IF res = "ok" THEN stored + Len(bps) ELSE stored
        /\ pc' = nxt.pc
        /\ i' = nxt.i
        /\ sendRes' = nxt.sendRes
        /\ UNCHANGED <<cfg, cap, ctor, client, built, clock, now, pts, maps, vi, mbs, hc,
                       rebuilt, reports, pings, log>>

\* One iteration of the batch loop: the batch pts[i:batchEnd] is written with
\* r.client.Write; an error returns it from send.
WriteBatch(ok) ==
    LET bps == Slice(pts, i, BatchEnd(i, mbs, Len(pts)))
        res == Call(client, ok)
        nxt == AfterWrite(res)
    IN  /\ pc = "write"
        /\ i < Len(pts)
        /\ attempts' = Append(attempts, [handle |-> client, points |-> bps, res |-> res])
        /\ stored' = IF res = "ok" THEN stored + Len(bps) ELSE stored
        /\ pc' = nxt.pc
        /\ i' = nxt.i
        /\ sendRes' = nxt.sendRes
        /\ UNCHANGED <<cfg, cap, ctor, client, built, clock, now, pts, maps, vi, mbs, hc,
                       rebuilt, reports, pings, log>>

\* The loop condition i < len(pts) is false: send returns nil.
SendReturn ==
    /\ pc = "write"
    /\ i >= Len(pts)
    /\ sendRes' = "nil"
    /\ pc' = "sent"
    /\ UNCHANGED <<cfg, cap, ctor, client, built, clock, now, pts, maps, vi, mbs, i,
                   attempts, stored, hc, rebuilt, reports, pings, log>>

\* Back in run: `if err := r.send(); err != nil { log.Printf(...) }`, and the
\* loop selects again; send's locals are gone.
SendDone ==
    /\ pc = "sent"
    /\ log' = IF sendRes = "err" THEN <<"unable to send metrics to InfluxDB">> ELSE <<>>
    /\ pc' = "select"
    /\ now' = 0
    /\ pts' = <<>>
    /\ maps' = <<cfg.tags>>
    /\ vi' = 1
    /\ mbs' = 0
    /\ i' = 0
    /\ attempts' = <<>>
    /\ sendRes' = "none"
    /\ stored' = 0
    /\ UNCHANGED <<cfg, cap, ctor, client, built, clock, hc, rebuilt, reports, pings>>

(***************************************************************************)
(* reporter.run: case <-pingTicker                                         *)
(***************************************************************************)
\* reporter.makeClient: r.client, err = client.NewClient(...)
makeClient(outcome) == NewClient(outcome, built + 1)

\* Faulty variant: the rebuilt handle is dropped, r.client keeps the old one.
HealthCheckKeepsOld(pingRes, outcome) ==
    IF pingRes = "err"
      THEN LET nc == makeClient(outcome)
           IN  [client |-> client, rebuild |-> IF nc.err THEN "err" ELSE "ok"]
      ELSE [client |-> client, rebuild |-> "none"]
\* Faulty variant: the client is rebuilt at every health check.
HealthCheckAlwaysRebuilds(pingRes, outcome) ==
    IF pingRes \in {"ok", "err"}
      THEN LET nc == makeClient(outcome)
           IN  [client |-> nc.client, rebuild |-> IF nc.err THEN "err" ELSE "ok"]
      ELSE [client |-> client, rebuild |-> "none"]

\* The health check: the handle after it, whether a rebuild was tried and how
\* it ended, given the answers of Ping and of NewClient.
HealthCheck(pingRes, outcome) ==
    IF pingRes = "err"
      THEN LET nc == makeClient(outcome)
           IN  [client |-> nc.client, rebuild |-> IF nc.err THEN "err" ELSE "ok"]
      ELSE [client |-> client, rebuild |-> "none"]
\* Faulty variant: the ping failure is logged only when the rebuild fails too.
HealthLogRebuildOnly(pingRes, rebuild) ==
    IF pingRes = "err" /\ rebuild = "err"
      THEN <<"got error while sending a ping to InfluxDB, trying to recreate client",
             "unable to make InfluxDB client">>
      ELSE <<>>

\* The lines the health check logs.
HealthLog(pingRes, rebuild) ==
    (IF pingRes = "err"
       THEN <<"got error while sending a ping to InfluxDB, trying to recreate client">>
       ELSE <<>>)
    \o (IF rebuild = "err" THEN <<"unable to make InfluxDB client">> ELSE <<>>)
\* Faulty variant: the ping ticker is served by a goroutine of its own, also
\* while send is writing.
PingTickConcurrent(ok, outcome) ==
    LET pingRes == Call(client, ok)
        h == HealthCheck(pingRes, outcome)
    IN  /\ pc \in {"select", "write"}
        /\ pings < MaxPings
        /\ pings' = pings + 1
        /\ pc' = IF pingRes = "panic" THEN "crashed" ELSE pc
        /\ client' = h.client
        /\ built' = IF h.rebuild # "none" /\ h.client # Nil THEN built + 1 ELSE built
        /\ hc' = [ping |-> pingRes, rebuild |-> h.rebuild, before |-> client,
                  after |-> h.client]
        /\ rebuilt' = CASE h.rebuild = "ok" ->
                             [active |-> TRUE, old |-> client, new |-> built + 1]
                        [] h.rebuild = "err" -> [rebuilt EXCEPT !.active = FALSE]
                        [] OTHER -> rebuilt
        /\ log' = HealthLog(pingRes, h.rebuild)
        /\ UNCHANGED <<cfg, cap, ctor, clock, now, pts, maps, vi, mbs, i, attempts,
                       sendRes, stored, reports>>

\* The ping ticker fires: r.client.Ping(), and r.makeClient() when it fails.
PingTick(ok, outcome) ==
    LET pingRes == Call(client, ok)
        h == HealthCheck(pingRes, outcome)
    IN  /\ pc = "select"
        /\ pings < MaxPings
        /\ pings' = pings + 1
        /\ pc' = IF pingRes = "panic" THEN "crashed" ELSE "select"
        /\ client' = h.client
        /\ built' = IF h.rebuild # "none" /\ h.client # Nil THEN built + 1 ELSE built
        /\ hc' = [ping |-> pingRes, rebuild |-> h.rebuild, before |-> client,
                  after |-> h.client]
        /\ rebuilt' = CASE h.rebuild = "ok" ->
                             [active |-> TRUE, old |-> client, new |-> built + 1]
                        [] h.rebuild = "err" -> [rebuilt EXCEPT !.active = FALSE]
                        [] OTHER -> rebuilt
        /\ log' = HealthLog(pingRes, h.rebuild)
        /\ UNCHANGED <<cfg, cap, ctor, clock, now, pts, maps, vi, mbs, i, attempts,
                       sendRes, stored, reports>>

(***************************************************************************)
(* Time                                                                    *)
(***************************************************************************)
\* Time passes while the loop waits in select or is inside a handler.
Elapse ==
    /\ pc \in {"select", "visit", "write", "sent"}
    /\ clock < MaxClock
    /\ clock' = clock + 1
    /\ UNCHANGED <<cfg, cap, pc, ctor, client, built, now, pts, maps, vi, mbs, i,
                   attempts, sendRes, stored, hc, rebuilt, reports, pings, log>>

Next ==
    \/ InfluxDBWithTags
    \/ ReportTick
    \/ Visit
    \/ StartBatches
    \/ \E ok \in BOOLEAN : WriteBatch(ok)
    \/ SendReturn
    \/ SendDone
    \/ \E ok \in BOOLEAN, outcome \in NewClientOutcomes : PingTick(ok, outcome)
    \/ Elapse

Spec == Init /\ [][Next]_vars


(***************************************************************************)
(* Properties                                                              *)
(***************************************************************************)
CeilDiv(a, b) == (a + b - 1) \div b

\* The points of the write calls as, one after the other.
RECURSIVE Flatten(_)
Flatten(as) == IF as = <<>> THEN <<>> ELSE Head(as).points \o Flatten(Tail(as))

\* The number of points in the first n write calls of as.
RECURSIVE PointsIn(_, _)
PointsIn(as, n) == IF n = 0 THEN 0 ELSE PointsIn(as, n - 1) + Len(as[n].points)

AllOk(as) == \A k \in 1..Len(as) : as[k].res = "ok"

\* C1: when send has returned nil with maxBatchSize = B > 0, Write was called
\* ceil(P/B) times, each call carried at most B points, and the calls in order
\* carry the accumulated points, each once and in the original order.
C1_Batching ==
    (pc = "sent" /\ sendRes = "nil" /\ cfg.maxBatchSize > 0) =>
        /\ Len(attempts) = CeilDiv(Len(pts), cfg.maxBatchSize)
        /\ \A k \in 1..Len(attempts) : Len(attempts[k].points) <= cfg.maxBatchSize
        /\ Flatten(attempts) = pts
        /\ AllOk(attempts)

\* 13 points written in 7 batches of at most 2.
C1_Witness ==
    /\ pc = "sent" /\ sendRes = "nil" /\ cfg.maxBatchSize = 2
    /\ Len(pts) = 13 /\ Len(attempts) = 7 /\ Len(attempts[7].points) = 1

\* C2: a failed write is the last write of its send: every write before it
\* succeeded, send has returned the error, and the points of the batches
\* written before it are still in the store.
C2_FailFast ==
    \A k \in 1..Len(attempts) :
        attempts[k].res = "err" =>
            /\ k = Len(attempts)
            /\ pc = "sent" /\ sendRes = "err"
            /\ \A j \in 1..(k - 1) : attempts[j].res = "ok"
            /\ stored = PointsIn(attempts, k - 1)

\* Three batches (5 points, 2 per batch), the second write fails: batches 1
\* and 2 were attempted, batch 1 is stored.
C2_Witness ==
    /\ pc = "sent" /\ sendRes = "err"
    /\ Len(pts) = 5 /\ mbs = 2
    /\ Len(attempts) = 2 /\ attempts[1].res = "ok" /\ attempts[2].res = "err"
    /\ stored = 2

\* C3: from a successful rebuild until the next rebuild attempt, the handle
\* NewClient returned is the current one, it is not the handle it replaced,
\* and every write of a send is served by it.
C3_Reconnect ==
    rebuilt.active =>
        /\ client = rebuilt.new
        /\ rebuilt.new # rebuilt.old
        /\ \A k \in 1..Len(attempts) : attempts[k].handle = rebuilt.new

\* A second send after a rebuild, two of its writes served.
C3_Witness ==
    /\ rebuilt.active /\ hc.ping = "err" /\ hc.rebuild = "ok"
    /\ reports = 2 /\ Len(attempts) >= 2
    /\ attempts[2].handle = rebuilt.new

\* C4 (as claimed): after a health check whose ping and rebuild both failed,
\* r.client is the handle it was before the health check.
C4_StaleHandleKept ==
    (hc.ping = "err" /\ hc.rebuild = "err") => client = hc.before

\* C5 (as claimed): when send has returned with maxBatchSize <= 0, exactly one
\* batch was written and it holds all the points, also when there are none.
C5_OneBatchAlways ==
    (pc = "sent" /\ cfg.maxBatchSize <= 0) =>
        /\ Len(attempts) = 1
        /\ attempts[1].points = pts

\* C5 (amended): when send has returned with maxBatchSize <= 0, one batch was
\* written and it holds all the points when there is at least one point, and
\* no batch was written when there is none.
C5_OneBatch ==
    (pc = "sent" /\ cfg.maxBatchSize <= 0) =>
        IF Len(pts) = 0
          THEN attempts = <<>>
          ELSE Len(attempts) = 1 /\ attempts[1].points = pts

\* 13 points in one batch.
C5_Witness ==
    /\ pc = "sent" /\ cfg.maxBatchSize <= 0
    /\ Len(pts) = 13 /\ Len(attempts) = 1 /\ Len(attempts[1].points) = 13

\* C6: when send returns nil every batch of the tick was written and no write
\* failed; when a write failed send returns an error.
C6_SuccessOnlyIfAllWritten ==
    /\ sendRes = "nil" =>
           /\ AllOk(attempts)
           /\ Flatten(attempts) = pts
           /\ stored = Len(pts)
    /\ (\E k \in 1..Len(attempts) : attempts[k].res = "err") => sendRes = "err"

\* send returned nil after three successful writes.
C6_Witness ==
    /\ pc = "sent" /\ sendRes = "nil"
    /\ Len(attempts) = 3 /\ AllOk(attempts) /\ stored = 13

\* C7 (as claimed): once run is entered the control flow is in the loop, at the
\* select or inside one of its two handlers, whatever failed before.
C7_NoTerminalState ==
    ctor = "ok" => pc \in {"select", "visit", "write", "sent"}

\* C8: when InfluxDBWithTags failed, on the url or on the client, it has
\* returned, and there is and was no tick, ping, registry visit or write.
C8_NeverStarted ==
    ctor \in {"parse_err", "client_err"} =>
        /\ pc = "returned"
        /\ reports = 0 /\ pings = 0
        /\ vi = 1 /\ pts = <<>> /\ attempts = <<>>
        /\ hc = NoCheck
        /\ ~ ENABLED Next

\* makeClient failed in the constructor.
C8_Witness ==
    /\ ctor = "client_err" /\ pc = "returned"
    /\ Len(log) = 1

\* C9 (as claimed): the tag map of a point is never r.tags itself, nor the map
\* of another point.
C9_FreshTagCopies ==
    \A k \in 1..Len(pts) :
        /\ pts[k].Tags # BaseRef
        /\ \A j \in 1..Len(pts) : j # k => pts[j].Tags # pts[k].Tags

\* The field sets of the three multi-field kinds.
HistogramKeys ==
    {"count", "max", "mean", "min", "stddev", "variance", "p50", "p75", "p95", "p99"}
MeterKeys == {"count", "m1", "m5", "mean"}
TimerKeys == HistogramKeys \cup {"m1", "m5", "meanrate"}

KeysOf(kind) ==
    CASE kind = "Histogram" -> HistogramKeys
      [] kind = "Meter" -> MeterKeys
      [] kind = "Timer" -> TimerKeys

SuffixOf(kind) ==
    CASE kind = "Histogram" -> ".histogram"
      [] kind = "Meter" -> ".meter"
      [] kind = "Timer" -> ".timer"

\* The positions in pts of the points that carry the field key.
PointsOf(key) == { k \in 1..Len(pts) : key \in DOMAIN pts[k].Fields }

\* The tags of point k are the base tags with bucket added.
BaseWithBucket(k) ==
    LET t == maps[pts[k].Tags]
    IN  /\ DOMAIN t = DOMAIN cfg.tags \cup {"bucket"}
        /\ \A x \in DOMAIN cfg.tags \ {"bucket"} : t[x] = cfg.tags[x]

\* C10: once reg.Each has visited a Histogram, Meter or Timer, pts holds one
\* point per field of its kind (10, 4, 13), each with the single field
\* <name>.<kind> and the base tags plus bucket = the field's key, and no two of
\* them with the same bucket.
C10_OnePointPerField ==
    \A n \in 1..Len(cfg.reg) :
        (n < vi /\ pc \in {"visit", "write", "sent"}
            /\ cfg.reg[n].kind \in {"Histogram", "Meter", "Timer"}) =>
            LET e == cfg.reg[n]
                ps == PointsOf(e.name \o SuffixOf(e.kind))
            IN  /\ Cardinality(ps) = Cardinality(KeysOf(e.kind))
                /\ Cardinality(KeysOf(e.kind)) =
                       CASE e.kind = "Histogram" -> 10
                         [] e.kind = "Meter" -> 4
                         [] e.kind = "Timer" -> 13
                /\ \A k \in ps :
                       /\ DOMAIN pts[k].Fields = {e.name \o SuffixOf(e.kind)}
                       /\ BaseWithBucket(k)
                /\ { maps[pts[k].Tags]["bucket"] : k \in ps } = KeysOf(e.kind)

\* A Timer has been visited: 13 points.
C10_Witness ==
    /\ pc = "write" /\ cfg.reg = <<TimerT>> /\ cfg.tags = HostTags
    /\ Cardinality(PointsOf("t.timer")) = 13


\* The tag map of point k.
TagsOf(k) == maps[pts[k].Tags]

\* C11: once reg.Each has visited a Counter, a Gauge or a GaugeFloat64, pts holds
\* exactly one point for it: its only field is <name>.count = the count
\* (<name>.gauge = the value), its measurement is the configured one and its
\* tags are the base tags, with no bucket added.
C11_SinglePointKinds ==
    \A n \in 1..Len(cfg.reg) :
        (n < vi /\ pc \in {"visit", "write", "sent"}
            /\ cfg.reg[n].kind \in {"Counter", "Gauge", "GaugeFloat64"}) =>
            LET e == cfg.reg[n]
                key == e.name \o (IF e.kind = "Counter" THEN ".count" ELSE ".gauge")
                v == IF e.kind = "Counter" THEN e.Count ELSE e.Value
                ps == PointsOf(key)
            IN  /\ Cardinality(ps) = 1
                /\ \A k \in ps :
                       /\ pts[k].Fields = (key :> v)
                       /\ pts[k].Measurement = cfg.measurement
                       /\ TagsOf(k) = cfg.tags
                       /\ "bucket" \notin DOMAIN TagsOf(k)

\* A Gauge with value 1024 and base tags {host: a}: one point g.gauge = 1024.
C11_Witness ==
    /\ pc = "write" /\ cfg.reg = <<GaugeG, HealthcheckX, GaugeFloatF>>
    /\ cfg.tags = HostTags
    /\ Len(pts) = 2
    /\ pts[1].Fields = ("g.gauge" :> 1024) /\ TagsOf(1) = ("host" :> "a")

\* The labels of the four percentiles, in the order of the quantiles.
PercentileLabels == <<"p50", "p75", "p95", "p99">>

\* C13: once reg.Each has visited a Histogram or a Timer whose Percentiles
\* returned <<a, b, c, d>>, exactly one of its points has bucket p50 and its
\* value is a, and likewise p75 and b, p95 and c, p99 and d.
C13_PositionalPercentiles ==
    \A n \in 1..Len(cfg.reg) :
        (n < vi /\ pc \in {"visit", "write", "sent"}
            /\ cfg.reg[n].kind \in {"Histogram", "Timer"}) =>
            LET e == cfg.reg[n]
                key == e.name \o SuffixOf(e.kind)
            IN  \A q \in 1..4 :
                    LET ks == { k \in PointsOf(key) :
                                   /\ "bucket" \in DOMAIN TagsOf(k)
                                   /\ TagsOf(k)["bucket"] = PercentileLabels[q] }
                    IN  /\ Cardinality(ks) = 1
                        /\ \A k \in ks : pts[k].Fields[key] = e.Percentiles[q]

\* A Histogram whose percentiles are <<8, 3, 7, 0>>: p50 = 8 and p99 = 0.
C13_Witness ==
    /\ pc = "write" /\ cfg.reg = <<HistogramH>>
    /\ \E k \in 1..Len(pts) : TagsOf(k)["bucket"] = "p50" /\ pts[k].Fields["h.histogram"] = 8
    /\ \E k \in 1..Len(pts) : TagsOf(k)["bucket"] = "p99" /\ pts[k].Fields["h.histogram"] = 0

\* The kinds the type switch lists.
SupportedKinds == {"Counter", "Gauge", "GaugeFloat64", "Histogram", "Meter", "Timer"}

IsSupported(e) == e.kind \in SupportedKinds

\* The number of points the table of kinds gives an entry.
PointCount(e) ==
    CASE e.kind \in {"Counter", "Gauge", "GaugeFloat64"} -> 1
      [] e.kind = "Histogram" -> 10
      [] e.kind = "Meter" -> 4
      [] e.kind = "Timer" -> 13
      [] OTHER -> 0

RECURSIVE TotalPoints(_)
TotalPoints(reg) ==
    IF reg = <<>> THEN 0 ELSE PointCount(Head(reg)) + TotalPoints(Tail(reg))

\* What visiting the registry reg from st can leave in pts and maps.
RECURSIVE VisitOutcomes(_, _)
VisitOutcomes(st, reg) ==
    IF reg = <<>> THEN {st}
    ELSE UNION { VisitOutcomes(Translate(st, Head(reg), ord), Tail(reg)) :
                     ord \in Orders(FieldsOf(Head(reg))) }

\* The field keys of the entries of reg.
KeysIn(reg) ==
    { reg[n].name \o (CASE reg[n].kind = "Counter" -> ".count"
                        [] reg[n].kind \in {"Gauge", "GaugeFloat64"} -> ".gauge"
                        [] OTHER -> SuffixOf(reg[n].kind)) : n \in 1..Len(reg) }

\* C14: when reg.Each has returned, pts (and the tag maps) are what the registry
\* without its entries of other kinds gives; from then on no point of pts
\* belongs to such an entry, and a send that returns nil has written exactly
\* the points of pts.
C14_UnsupportedSkipped ==
    pc \in {"write", "sent"} =>
        /\ (pc = "write" /\ attempts = <<>>) =>
               [pts |-> pts, maps |-> maps] \in
                   VisitOutcomes([pts |-> <<>>, maps |-> <<cfg.tags>>],
                                 SelectSeq(cfg.reg, IsSupported))
        /\ Len(pts) = TotalPoints(SelectSeq(cfg.reg, IsSupported))
        /\ \A k \in 1..Len(pts) :
               DOMAIN pts[k].Fields \subseteq KeysIn(SelectSeq(cfg.reg, IsSupported))
        /\ (pc = "sent" /\ sendRes = "nil") => Flatten(attempts) = pts

\* Two gauges around an entry of another kind: two points, send returns nil.
C14_Witness ==
    /\ pc = "sent" /\ sendRes = "nil"
    /\ cfg.reg = <<GaugeG, HealthcheckX, GaugeFloatF>>
    /\ Len(pts) = 2 /\ Len(Flatten(attempts)) = 2

\* C18: every point of pts and of every batch written in this tick carries the
\* stamp made from the one instant captured when send began, however far the
\* clock has moved since.
C18_SingleNow ==
    LET stamp == IF cfg.align THEN (cap.t \div cfg.interval) * cfg.interval ELSE cap.t
    IN  /\ \A k \in 1..Len(pts) : pts[k].Time = stamp
        /\ \A a \in 1..Len(attempts) :
               \A k \in 1..Len(attempts[a].points) : attempts[a].points[k].Time = stamp
        /\ cap.t <= clock

\* Two batches written, the clock two units past the capture.
C18_Witness ==
    /\ pc = "sent" /\ ~ cfg.align
    /\ Len(attempts) >= 2 /\ Len(pts) >= 2
    /\ cap.t = 0 /\ clock = 2
    /\ attempts[2].points[1].Time = 0

\* C19: when reg.Each has left pts empty no Write is called, whatever
\* maxBatchSize and r.client are: the loop can only end, and send returns nil.
C19_NoPointsNoWrite ==
    (pc \in {"write", "sent"} /\ pts = <<>>) =>
        /\ attempts = <<>>
        /\ pc = "write" =>
               /\ ENABLED SendReturn
               /\ ~ ENABLED (\E ok \in BOOLEAN : WriteBatch(ok))
        /\ pc = "sent" => sendRes = "nil"

\* Only an entry of another kind, and r.client is nil after a failed rebuild.
C19_Witness ==
    /\ pc = "sent" /\ sendRes = "nil" /\ client = Nil
    /\ cfg.reg = <<HealthcheckX>> /\ pts = <<>> /\ attempts = <<>>


\* C12: the stamp a send makes from the instant t it captures is
\* floor(t / I) * I when align is set and t itself otherwise, its points carry
\* that stamp, and with align set a send whose instant falls in the same
\* interval as the previous send's makes the same stamp.
C12_Alignment ==
    /\ [](\A k \in 1..Len(pts) : pts[k].Time = cap.stamp)
    /\ [][reports' = reports + 1 =>
            /\ cap'.t = clock
            /\ cap'.stamp = IF cfg.align
                              THEN (clock \div cfg.interval) * cfg.interval
                              ELSE clock
            /\ (cfg.align /\ reports >= 1
                  /\ cap.t \div cfg.interval = clock \div cfg.interval) =>
                   cap'.stamp = cap.stamp]_vars

\* The second send captured instant 1 with interval 2 (the first one instant 0
\* or 1, the same interval): its points are stamped 0.
C12_Witness ==
    /\ cfg.align /\ cfg.interval = 2 /\ reports = 2
    /\ cap.t = 1 /\ cap.stamp = 0
    /\ Len(pts) >= 1 /\ pts[1].Time = 0

\* A send is in progress.
Sending == pc \in {"visit", "write", "sent"}

\* C15: a health check is taken only at the select, with no send in progress,
\* and is over when the loop selects again; a send starts only at the select;
\* while a send is in progress r.client does not change, so all its writes go
\* to one handle.
C15_NoOverlap ==
    /\ [](\A k \in 1..Len(attempts) : attempts[k].handle = attempts[1].handle)
    /\ [](Sending => \A k \in 1..Len(attempts) : attempts[k].handle = client)
    /\ [][pings' # pings =>
            /\ pc = "select" /\ ~ Sending
            /\ pts = <<>> /\ attempts = <<>> /\ sendRes = "none"
            /\ pc' \in {"select", "crashed"}]_vars
    /\ [][reports' # reports => pc = "select"]_vars
    /\ [][Sending => client' = client /\ hc' = hc /\ pings' = pings]_vars

\* A send writing its second batch after a health check that rebuilt the client.
C15_Witness ==
    /\ pc = "write" /\ pings = 1 /\ hc.ping = "err" /\ hc.rebuild = "ok"
    /\ Len(attempts) = 2
    /\ attempts[1].handle = client /\ attempts[2].handle = client

\* C16 (as claimed): a health check whose ping failed and whose rebuild
\* succeeded has logged nothing about the ping.
C16_PingNotLogged ==
    (hc.ping = "err" /\ hc.rebuild = "ok") =>
        \A k \in 1..Len(log) :
            log[k] # "got error while sending a ping to InfluxDB, trying to recreate client"

\* C16 (amended): a failed ping is followed by a rebuild attempt and is always
\* logged; the failure of the rebuild is logged after it. A health check whose
\* ping failed and whose rebuild succeeded logs the one line of the ping.
C16_PingAlwaysLogged ==
    [][pings' # pings =>
         /\ hc'.ping = "err" => hc'.rebuild \in {"ok", "err"}
         /\ log' = CASE hc'.ping = "err" /\ hc'.rebuild = "ok" ->
                          <<"got error while sending a ping to InfluxDB, trying to recreate client">>
                     [] hc'.ping = "err" /\ hc'.rebuild = "err" ->
                          <<"got error while sending a ping to InfluxDB, trying to recreate client",
                            "unable to make InfluxDB client">>
                     [] OTHER -> <<>>]_vars

\* The ping failed, the rebuild succeeded, one line was logged.
C16_Witness ==
    /\ pc = "select" /\ hc.ping = "err" /\ hc.rebuild = "ok"
    /\ client = 2 /\ Len(log) = 1

\* C17: once run is entered, r.client changes and NewClient is called only in a
\* health check whose ping failed; a health check whose ping succeeded and
\* every step of a report tick leave the handle as it is and build nothing.
C17_HandleFrame ==
    [][pc # "start" =>
         /\ (client' # client \/ built' # built \/ rebuilt' # rebuilt) =>
                /\ pings' = pings + 1
                /\ hc'.ping = "err" /\ hc'.rebuild # "none"
         /\ (pings' # pings /\ hc'.ping = "ok") =>
                /\ client' = client /\ built' = built
                /\ hc'.rebuild = "none"
         /\ (Sending \/ reports' # reports) =>
                client' = client /\ built' = built /\ hc' = hc]_vars

\* A ping that succeeded and then a send that failed: the handle is still the
\* one the constructor built.
C17_Witness ==
    /\ pc = "select" /\ reports >= 1 /\ pings = 1
    /\ hc.ping = "ok" /\ hc.rebuild = "none"
    /\ log = <<"unable to send metrics to InfluxDB">>
    /\ client = 1 /\ built = 1

====
